---- MODULE Spec2Model ----
(***************************************************************************)
(* rlock: a mutual-exclusion lock whose state is one row per lock name in  *)
(* a MySQL table (src/rlock.go).  Every client thread runs Lock, LastError *)
(* and Unlock against the shared table; each SQL statement is one atomic   *)
(* step, and the steps of different threads interleave freely.             *)
(*                                                                         *)
(* Time is counted in whole PollIntervals (one second in the source).  The *)
(* staleness window MaxAge (one hour in the source) is scaled down to a    *)
(* few PollIntervals so that stale records occur inside the horizon.       *)
(***************************************************************************)
EXTENDS Integers, FiniteSets, Sequences, TLC

\* ------------------------------------------------------------------ bounds
MaxTime    == 2      \* horizon of the clock, in PollIntervals
MaxTimeout == 2      \* largest acquireTimeout passed to Lock, in PollIntervals

\* ------------------------------------------------------- program constants
PollInterval == 1    \* rlock.go:31, the unit of time of the model
MaxAge       == 1    \* rlock.go:32, scaled to PollIntervals (see above)

AcquireTimeoutErr == <<"reached timeout while waiting on lock">>
KeyNotFoundErr    == <<"no such lock">>

\* An error value is a sequence: <<>> is Go's nil error, <<m>> is an error
\* whose Error() text is m.
Nil == <<>>
\* where a result is kept: no call has returned one yet
NoCall == <<"no", "call">>
Msg(e) == e[1]

\* the client threads, each with an RLock (an owner token) of its own: a
\* holder, a waiter and a third claimant
Procs    == {1, 2, 3}
Names    == {"job-17"}
Timeouts == 1..MaxTimeout
\* the errors a caller hands to Unlock: none, one with an empty text, one with text
UnlockArgs == {Nil, <<"">>, <<"recoverable error">>}

VARIABLES
    table,       \* the rlock table: a set of rows (LockEntry)
    now,         \* the clock
    owner,       \* owner[p]: RLock.owner of the manager thread p uses
    pc,          \* where thread p is: "idle", inside Lock, or holding a *Lock
    lname,       \* Lock's argument name / Lock.name of the handle
    ltimeout,    \* Lock's argument acquireTimeout / Lock.timeout of the handle
    existing,    \* existingLock.Owner, as fetched by getExistingByName
    verr,        \* the error isValid returned for the fetched entry
    deadline,    \* when timer.C fires
    wake,        \* when time.Sleep(PollInterval) returns
    ret,         \* what thread p's last finished call returned: NoCall, or
                 \* <<"Lock", err>>, <<"Unlock", err>> with err an error value
    lerr,        \* what LastError returned on the current handle (NoCall before any)
    via,         \* history: the path on which the current handle was obtained
    raced,       \* history: another claimant took the row over since this call's fetch
    hand,        \* history: the handoff owed to a waiting call
    lastUnlock,  \* history: per name, the argument of the latest successful Unlock
    everStale    \* history: some row was stale while marked in use

vars == <<table, now, owner, pc, lname, ltimeout, existing, verr, deadline, wake, ret,
          lerr, via, raced, hand, lastUnlock, everStale>>

\* ------------------------------------------------------------- the store
\* The row INSERT creates: the statement names name, owner and in_use; the
\* other columns take the table's defaults.
NewRow(name, self, t) ==
    [name |-> name, owner |-> self, in_use |-> TRUE, last_error |-> "", last_used |-> t]

\* a last_used column that is set by the INSERT only
TouchNever(r, t) == r

\* last_used is maintained by the table, not by the statements: a row that a
\* statement changes gets the time of the statement.
Touch(r, t) == [r EXCEPT !.last_used = t]

RowsOf(tbl, name) == {r \in tbl : r.name = name}

\* a table without the unique key on name
InsertDupeNoKey(tbl, name) == FALSE

\* INSERT INTO rlock (name, owner, in_use) VALUES(?, ?, 1): MySQL error 1062
\* when the unique key on name is already taken.
InsertDupe(tbl, name) == RowsOf(tbl, name) # {}

InsertTable(tbl, name, self, t) ==
    IF InsertDupe(tbl, name) THEN tbl ELSE tbl \cup {NewRow(name, self, t)}

\* UPDATE: the rows the WHERE clause selects, the rows the SET clause changes
\* (RowsAffected counts the rows changed), and the table afterwards.
UpdateChanged(matched, set) == {r \in matched : set[r] # r}

UpdateTable(tbl, matched, set, t) ==
    (tbl \ UpdateChanged(matched, set))
        \cup {Touch(set[r], t) : r \in UpdateChanged(matched, set)}

RowsAffected(matched, set) == Cardinality(UpdateChanged(matched, set))

\* ------------------------------------------------------------- takeover
\* the forced statement used for both modes
takeoverWhereAlwaysForced(r, origName, origOwner, force) ==
    /\ r.name = origName
    /\ r.owner = origOwner

\* the guarded statement with in_use=1 for in_use=0
takeoverWhereInUse(r, origName, origOwner, force) ==
    /\ r.name = origName
    /\ r.owner = origOwner
    /\ (force \/ r.in_use)

takeoverWhere(r, origName, origOwner, force) ==
    /\ r.name = origName
    /\ r.owner = origOwner
    /\ (force \/ ~r.in_use)

takeoverMatched(tbl, origName, origOwner, force) ==
    {r \in tbl : takeoverWhere(r, origName, origOwner, force)}

\* a takeover that marks the row in use and leaves its owner
takeoverSetKeepsOwner(r, self) == [r EXCEPT !.in_use = TRUE]

\* a takeover that also clears the text the last holder left
takeoverSetClearsError(r, self) ==
    [r EXCEPT !.owner = self, !.in_use = TRUE, !.last_error = ""]

takeoverSet(r, self) == [r EXCEPT !.owner = self, !.in_use = TRUE]

takeoverTable(tbl, self, origName, origOwner, force, t) ==
    LET matched == takeoverMatched(tbl, origName, origOwner, force) IN
    UpdateTable(tbl, matched, [r \in matched |-> takeoverSet(r, self)], t)

takeoverAffected(tbl, self, origName, origOwner, force) ==
    LET matched == takeoverMatched(tbl, origName, origOwner, force) IN
    RowsAffected(matched, [r \in matched |-> takeoverSet(r, self)])

\* a takeover that does not look at the rows affected
takeoverUnchecked(tbl, self, origName, origOwner, force) == Nil

\* the error takeover returns
takeover(tbl, self, origName, origOwner, force) ==
    LET affected == takeoverAffected(tbl, self, origName, origOwner, force) IN
    IF affected > 1 THEN <<"lock takeover affected more than 1 row, possible bug">>
    ELSE IF affected = 0 THEN <<"unable to takeover lock, still in use">>
    ELSE Nil

\* ------------------------------------------------- getExistingByName, isValid
NoEntry == [name |-> "", owner |-> 0, in_use |-> FALSE, last_error |-> "", last_used |-> 0]

\* a fetch that never reports a missing row
getExistingByNameErrNever(tbl, name) == Nil

getExistingByNameErr(tbl, name) ==
    IF RowsOf(tbl, name) = {} THEN KeyNotFoundErr ELSE Nil

getExistingByName(tbl, name) ==
    IF RowsOf(tbl, name) = {} THEN NoEntry ELSE CHOOSE r \in RowsOf(tbl, name) : TRUE

isStale(r, t) == t - r.last_used > MaxAge

\* isValid without its staleness test
isValidNoStaleTest(existingLock, t) ==
    IF ~existingLock.in_use THEN <<"existing lock is not in use">> ELSE Nil

\* isValid without its in-use test
isValidNoInUseTest(existingLock, t) ==
    IF isStale(existingLock, t) THEN <<"existing lock is stale">> ELSE Nil

\* isValid with a staleness test that already fires at the age MaxAge
isValidStaleAtMaxAge(existingLock, t) ==
    IF existingLock = NoEntry THEN <<"existing lock cannot be nil">>
    ELSE IF ~existingLock.in_use THEN <<"existing lock is not in use">>
    ELSE IF t - existingLock.last_used >= MaxAge THEN <<"existing lock is stale">>
    ELSE Nil

\* the error isValid returns for a fetched entry; NoEntry stands for nil
isValid(existingLock, t) ==
    IF existingLock = NoEntry THEN <<"existing lock cannot be nil">>
    ELSE IF ~existingLock.in_use THEN <<"existing lock is not in use">>
    ELSE IF isStale(existingLock, t) THEN <<"existing lock is stale">>
    ELSE Nil

\* ------------------------------------------------------------- Unlock
\* an Unlock that never stores the text
lastErrorStrDropped(lastError) == ""

lastErrorStr(lastError) == IF lastError = Nil THEN "" ELSE Msg(lastError)

\* an Unlock that is not guarded by the owner
unlockWhereAnyOwner(r, name, self) == r.name = name

unlockWhere(r, name, self) == r.name = name /\ r.owner = self

unlockMatched(tbl, name, self) == {r \in tbl : unlockWhere(r, name, self)}

unlockSet(r, lastError) ==
    [r EXCEPT !.in_use = FALSE, !.last_error = lastErrorStr(lastError)]

\* an Unlock that deletes the row
unlockTableDeletes(tbl, name, self, lastError, t) ==
    tbl \ unlockMatched(tbl, name, self)

unlockTable(tbl, name, self, lastError, t) ==
    LET matched == unlockMatched(tbl, name, self) IN
    UpdateTable(tbl, matched, [r \in matched |-> unlockSet(r, lastError)], t)

UnlockErr(tbl, name, self, lastError) ==
    LET matched == unlockMatched(tbl, name, self)
        affected == RowsAffected(matched,
                        [r \in matched |-> unlockSet(r, lastError)]) IN
    IF affected # 1 THEN <<"unexpected number of affected rows after unlock">>
    ELSE Nil

\* ------------------------------------------------------------- LastError
\* a LastError that selects on the name only
lastErrorRowsAnyOwner(tbl, name, self) == {r \in tbl : r.name = name}

lastErrorRows(tbl, name, self) == {r \in tbl : r.name = name /\ r.owner = self}

LastErrorOf(tbl, name, self) ==
    IF lastErrorRows(tbl, name, self) = {}
    THEN <<"unexpected error while fetching last error state">>
    ELSE LET lastError == (CHOOSE r \in lastErrorRows(tbl, name, self) : TRUE).last_error IN
         IF lastError = "" THEN Nil ELSE <<lastError>>

\* ------------------------------------------------------------- New
\* generateUUID never repeats: every manager gets a token of its own.
generateUUID(p) == p

Init ==
    /\ table = {}
    /\ now = 0
    /\ owner = [p \in Procs |-> generateUUID(p)]
    /\ pc = [p \in Procs |-> "idle"]
    /\ lname = [p \in Procs |-> ""]
    /\ ltimeout = [p \in Procs |-> 0]
    /\ existing = [p \in Procs |-> 0]
    /\ verr = [p \in Procs |-> Nil]
    /\ deadline = [p \in Procs |-> 0]
    /\ wake = [p \in Procs |-> 0]
    /\ ret = [p \in Procs |-> NoCall]
    /\ lerr = [p \in Procs |-> NoCall]
    /\ via = [p \in Procs |-> "none"]
    /\ raced = [p \in Procs |-> FALSE]
    /\ hand = [p \in Procs |-> "none"]
    /\ lastUnlock = [n \in Names |-> NoCall]
    /\ everStale = FALSE

\* the locals of a Lock call are dead once it has returned
Return(p, state, result) ==
    /\ pc' = [pc EXCEPT ![p] = state]
    /\ ret' = [ret EXCEPT ![p] = result]
    /\ ltimeout' = [ltimeout EXCEPT ![p] = 0]
    /\ existing' = [existing EXCEPT ![p] = 0]
    /\ verr' = [verr EXCEPT ![p] = Nil]
    /\ deadline' = [deadline EXCEPT ![p] = 0]
    /\ wake' = [wake EXCEPT ![p] = 0]

\* the other calls that are past their fetch of the same name
Claimants(p) ==
    {q \in Procs \ {p} : lname[q] = lname[p] /\ pc[q] \in {"force", "sleep"}}

\* history kept when p's takeover succeeds
TookOver(p) ==
    /\ raced' = [q \in Procs |->
                   IF q = p THEN FALSE
                   ELSE IF q \in Claimants(p) /\ pc[q] = "force" THEN TRUE
                   ELSE raced[q]]
    /\ hand' = [q \in Procs |->
                  IF q = p THEN (IF hand[p] = "due" THEN "due" ELSE "none")
                  ELSE IF q \in Claimants(p) /\ hand[q] = "due" THEN "barged"
                  ELSE hand[q]]

\* ------------------------------------------------------------- Lock
\* The call and its INSERT; without a duplicate the handle is returned at once.
\* No call starts so late that its timeout would reach past the horizon.
Lock(p, name, acquireTimeout) ==
    /\ pc[p] = "idle"
    /\ now + acquireTimeout <= MaxTime
    /\ table' = InsertTable(table, name, owner[p], now)
    /\ lname' = [lname EXCEPT ![p] = name]
    /\ IF InsertDupe(table, name)
       THEN /\ pc' = [pc EXCEPT ![p] = "fetch"]
            /\ ret' = [ret EXCEPT ![p] = NoCall]
            /\ ltimeout' = [ltimeout EXCEPT ![p] = acquireTimeout]
            /\ via' = via
       ELSE /\ pc' = [pc EXCEPT ![p] = "held"]
            /\ ret' = [ret EXCEPT ![p] = <<"Lock", Nil>>]
            /\ ltimeout' = ltimeout
            /\ via' = [via EXCEPT ![p] = "insert"]
    /\ UNCHANGED <<now, owner, existing, verr, deadline, wake, lerr, raced, hand,
                   lastUnlock, everStale>>

\* a timer that never fires
timerFiredNever(t, p) == FALSE

\* timer.C has a value once the deadline is reached
timerFired(t, p) == t >= deadline[p]

\* getExistingByName and isValid; for a valid entry also time.NewTimer and the
\* first select, which finds the new timer still running and goes to Sleep.
LockFetch(p) ==
    /\ pc[p] = "fetch"
    /\ IF getExistingByNameErr(table, lname[p]) = KeyNotFoundErr
       THEN Return(p, "idle", <<"Lock", <<"lock no longer exists">>>>)
       ELSE LET existingLock == getExistingByName(table, lname[p]) IN
            /\ existing' = [existing EXCEPT ![p] = existingLock.owner]
            /\ verr' = [verr EXCEPT ![p] = isValid(existingLock, now)]
            /\ IF isValid(existingLock, now) # Nil
               THEN /\ pc' = [pc EXCEPT ![p] = "force"]
                    /\ UNCHANGED <<deadline, wake>>
               ELSE /\ pc' = [pc EXCEPT ![p] = "sleep"]
                    /\ deadline' = [deadline EXCEPT ![p] = now + ltimeout[p]]
                    /\ wake' = [wake EXCEPT ![p] = now + PollInterval]
            /\ ltimeout' = [ltimeout EXCEPT ![p] = 0]
            /\ ret' = ret
    /\ UNCHANGED <<table, now, owner, lname, lerr, via, raced, hand, lastUnlock,
                   everStale>>

\* The existing lock is invalid: takeover(name, existingLock.Owner, true).
LockForce(p) ==
    /\ pc[p] = "force"
    /\ table' = takeoverTable(table, owner[p], lname[p], existing[p], TRUE, now)
    /\ IF takeover(table, owner[p], lname[p], existing[p], TRUE) = Nil
       THEN /\ Return(p, "held", <<"Lock", Nil>>)
            /\ via' = [via EXCEPT ![p] =
                         IF verr[p] = <<"existing lock is stale">>
                         THEN "forced, stale" ELSE "forced, released"]
            /\ TookOver(p)
       ELSE /\ Return(p, "idle", <<"Lock", <<"unable to take over lock">>>>)
            /\ raced' = [raced EXCEPT ![p] = FALSE]
            /\ UNCHANGED <<via, hand>>
    /\ UNCHANGED <<now, owner, lname, lerr, lastUnlock, everStale>>

\* One round of the loop: the Sleep is over, takeover(name, existingLock.Owner,
\* false); on an error continue, and the select takes the timer when it fired.
LockTakeover(p) ==
    /\ pc[p] = "sleep"
    /\ now >= wake[p]
    /\ table' = takeoverTable(table, owner[p], lname[p], existing[p], FALSE, now)
    /\ IF takeover(table, owner[p], lname[p], existing[p], FALSE) = Nil
       THEN /\ Return(p, "held", <<"Lock", Nil>>)
            /\ via' = [via EXCEPT ![p] = "guarded"]
            /\ TookOver(p)
       ELSE /\ IF timerFired(now, p)
               THEN /\ Return(p, "idle", <<"Lock", AcquireTimeoutErr>>)
               ELSE /\ wake' = [wake EXCEPT ![p] = now + PollInterval]
                    /\ UNCHANGED <<pc, ret, ltimeout, existing, verr, deadline>>
            /\ hand' = [hand EXCEPT ![p] = IF timerFired(now, p) THEN "none" ELSE @]
            /\ UNCHANGED <<via, raced>>
    /\ UNCHANGED <<now, owner, lname, lerr, lastUnlock, everStale>>

\* ------------------------------------------------------------- Lock handle
\* The handle is not used again after Unlock, whatever Unlock returned.
Unlock(p, lastError) ==
    LET err == UnlockErr(table, lname[p], owner[p], lastError) IN
    /\ pc[p] = "held"
    /\ table' = unlockTable(table, lname[p], owner[p], lastError, now)
    /\ pc' = [pc EXCEPT ![p] = "idle"]
    /\ ret' = [ret EXCEPT ![p] = <<"Unlock", err>>]
    /\ lerr' = [lerr EXCEPT ![p] = NoCall]
    /\ via' = [via EXCEPT ![p] = "none"]
    /\ lastUnlock' = IF err = Nil THEN [lastUnlock EXCEPT ![lname[p]] = lastError]
                     ELSE lastUnlock
    /\ hand' = [q \in Procs |->
                  IF q = p THEN "none"
                  ELSE IF /\ err = Nil
                          /\ q \in Claimants(p)
                          /\ pc[q] = "sleep"
                          /\ existing[q] = owner[p]
                          /\ hand[q] = "none"
                          /\ now + PollInterval <= deadline[q]
                  THEN "due" ELSE hand[q]]
    /\ UNCHANGED <<now, owner, lname, ltimeout, existing, verr, deadline, wake,
                   raced, everStale>>

LastError(p) ==
    /\ pc[p] = "held"
    /\ lerr' = [lerr EXCEPT ![p] = LastErrorOf(table, lname[p], owner[p])]
    /\ UNCHANGED <<table, now, owner, pc, lname, ltimeout, existing, verr, deadline,
                   wake, ret, via, raced, hand, lastUnlock, everStale>>

\* ------------------------------------------------------------- time
\* A call in the poll loop runs without delay: the clock does not advance while
\* its takeover is due.  The clock stops at the horizon.
Tick ==
    /\ now < MaxTime
    /\ \A p \in Procs : pc[p] = "sleep" => wake[p] > now
    /\ now' = now + 1
    /\ everStale' = (everStale \/ \E r \in table : r.in_use /\ isStale(r, now + 1))
    /\ UNCHANGED <<table, owner, pc, lname, ltimeout, existing, verr, deadline,
                   wake, ret, lerr, via, raced, hand, lastUnlock>>

Next ==
    \/ \E p \in Procs, name \in Names, acquireTimeout \in Timeouts :
          Lock(p, name, acquireTimeout)
    \/ \E p \in Procs : LockFetch(p)
    \/ \E p \in Procs : LockForce(p)
    \/ \E p \in Procs : LockTakeover(p)
    \/ \E p \in Procs, lastError \in UnlockArgs : Unlock(p, lastError)
    \/ \E p \in Procs : LastError(p)
    \/ Tick

Spec == Init /\ [][Next]_vars

\* A running Lock call keeps running, and time does not stand still.
FairSpec ==
    /\ Init /\ [][Next]_vars
    /\ WF_vars(Tick)
    /\ \A p \in Procs : WF_vars(LockFetch(p) \/ LockForce(p) \/ LockTakeover(p))

\* ------------------------------------------------------------- store failures
\* The store can fail a statement: db.Exec returns an error and the statement
\* has no effect.  An error is named by its MySQL number, or is not a MySQL
\* error at all; 1062 is returned only for a duplicate, in Lock above.
StoreErrors == {"1205", "bad connection"}

\* every error of the INSERT taken for a duplicate
insertIsDupeAnyError(err) == TRUE

\* me, ok := err.(*mysql.MySQLError); ok && me.Number == 1062
insertIsDupe(err) == err = "1062"

\* The call and an INSERT that the store fails.
LockInsertFails(p, name, acquireTimeout, err) ==
    /\ pc[p] = "idle"
    /\ now + acquireTimeout <= MaxTime
    /\ lname' = [lname EXCEPT ![p] = name]
    /\ IF insertIsDupe(err)
       THEN /\ pc' = [pc EXCEPT ![p] = "fetch"]
            /\ ret' = [ret EXCEPT ![p] = NoCall]
            /\ ltimeout' = [ltimeout EXCEPT ![p] = acquireTimeout]
       ELSE /\ pc' = [pc EXCEPT ![p] = "idle"]
            /\ ret' = [ret EXCEPT ![p] = <<"Lock", <<"unable to insert lock">>>>]
            /\ ltimeout' = ltimeout
    /\ UNCHANGED <<table, now, owner, existing, verr, deadline, wake, lerr, via,
                   raced, hand, lastUnlock, everStale>>

\* the error takeover returns when db.Exec failed
takeoverExecErr(err) == <<"unable to take over">>

\* One round of the loop in which the store fails the UPDATE: takeover returns
\* an error, and on an error the loop continues.
LockTakeoverFails(p, err) ==
    /\ pc[p] = "sleep"
    /\ now >= wake[p]
    /\ IF takeoverExecErr(err) = Nil
       THEN /\ Return(p, "held", <<"Lock", Nil>>)
            /\ hand' = hand
       ELSE /\ IF timerFired(now, p)
               THEN /\ Return(p, "idle", <<"Lock", AcquireTimeoutErr>>)
               ELSE /\ wake' = [wake EXCEPT ![p] = now + PollInterval]
                    /\ UNCHANGED <<pc, ret, ltimeout, existing, verr, deadline>>
            /\ hand' = [hand EXCEPT ![p] = IF timerFired(now, p) THEN "none" ELSE @]
    /\ UNCHANGED <<table, now, owner, lname, lerr, via, raced, lastUnlock, everStale>>

FaultNext ==
    \/ Next
    \/ \E p \in Procs, name \in Names, acquireTimeout \in Timeouts, err \in StoreErrors :
          LockInsertFails(p, name, acquireTimeout, err)
    \/ \E p \in Procs, err \in StoreErrors : LockTakeoverFails(p, err)

FaultSpec == Init /\ [][FaultNext]_vars

\* ------------------------------------------------------------- vanishing rows
\* Nothing in the package deletes a row, but Lock provides for a row that has
\* vanished between its INSERT and its fetch: somebody outside the package
\* deletes a row.
RowDeleted(r) ==
    /\ r \in table
    /\ table' = table \ {r}
    /\ UNCHANGED <<now, owner, pc, lname, ltimeout, existing, verr, deadline, wake,
                   ret, lerr, via, raced, hand, lastUnlock, everStale>>

CleanupNext ==
    \/ Next
    \/ \E r \in table : RowDeleted(r)

CleanupSpec == Init /\ [][CleanupNext]_vars

\* The README's example: threads 1 and 2 are goroutines that share one RLock
\* (one owner token); thread 3 uses an RLock of its own.
ManagerOf(p) == IF p = 2 THEN 1 ELSE p

SharedInit ==
    /\ table = {}
    /\ now = 0
    /\ owner = [p \in Procs |-> generateUUID(ManagerOf(p))]
    /\ pc = [p \in Procs |-> "idle"]
    /\ lname = [p \in Procs |-> ""]
    /\ ltimeout = [p \in Procs |-> 0]
    /\ existing = [p \in Procs |-> 0]
    /\ verr = [p \in Procs |-> Nil]
    /\ deadline = [p \in Procs |-> 0]
    /\ wake = [p \in Procs |-> 0]
    /\ ret = [p \in Procs |-> NoCall]
    /\ lerr = [p \in Procs |-> NoCall]
    /\ via = [p \in Procs |-> "none"]
    /\ raced = [p \in Procs |-> FALSE]
    /\ hand = [p \in Procs |-> "none"]
    /\ lastUnlock = [n \in Names |-> NoCall]
    /\ everStale = FALSE

SharedSpec == SharedInit /\ [][Next]_vars

\* ------------------------------------------------------------- claims
Holders(name) == {p \in Procs : pc[p] = "held" /\ lname[p] = name}

\* C1: as long as no row was ever stale while marked in use, at most one
\* thread holds an unreleased handle on a name.
C1_MutualExclusion ==
    ~everStale => \A name \in Names : Cardinality(Holders(name)) <= 1

\* C2: a Lock on a name without a row returns the handle straight from the
\* INSERT, leaving exactly the new row; a Lock on a name with a row gets the
\* duplicate, writes nothing and goes on to the fetch; at no time do two
\* threads hold a handle that came from the INSERT.
C2_Step ==
    \A p \in Procs, name \in Names, acquireTimeout \in Timeouts :
        Lock(p, name, acquireTimeout) =>
            /\ IF RowsOf(table, name) = {}
               THEN /\ pc'[p] = "held"
                    /\ ret'[p] = <<"Lock", Nil>>
                    /\ RowsOf(table', name) = {NewRow(name, owner[p], now)}
               ELSE /\ pc'[p] = "fetch"
                    /\ ret'[p] = NoCall
                    /\ table' = table
            /\ Cardinality({q \in Holders(name)' : via'[q] = "insert"}) <= 1

C2_FastPath == [][C2_Step]_vars

C2_Witness ==
    \E p, q \in Procs :
        /\ pc[p] = "held" /\ via[p] = "insert"
        /\ pc[q] = "fetch" /\ lname[q] = lname[p]

\* C3: a guarded takeover of the poll loop succeeds only on a row that is
\* not in use and still has the fetched owner, and a row stops being in use
\* only by an Unlock of the manager that owns it.
C3_Step ==
    /\ \A p \in Procs :
          (LockTakeover(p) /\ pc'[p] = "held") =>
              \E r \in RowsOf(table, lname[p]) : ~r.in_use /\ r.owner = existing[p]
    /\ \A r \in table, r2 \in table' :
          (r.name = r2.name /\ r.in_use /\ ~r2.in_use) =>
              \E p \in Procs, lastError \in UnlockArgs :
                  /\ Unlock(p, lastError)
                  /\ owner[p] = r.owner
                  /\ lname[p] = r.name

C3_NoEarlyTakeover == [][C3_Step]_vars

C3_Witness == \E p \in Procs : pc[p] = "held" /\ via[p] = "guarded"


\* C4, as claimed: a waiting call whose observed holder unlocked at least one
\* PollInterval before its deadline ends with a handle, whatever the others do.
C4_Step ==
    \A p \in Procs :
        (LockTakeover(p) /\ hand[p] # "none" /\ pc'[p] # "sleep") => pc'[p] = "held"

C4_HandoffAlways == [][C4_Step]_vars

\* C4, amended: such a call gets the handle at its next poll, provided no other
\* Lock call took the row over between that Unlock and the poll.
C4_AmendedStep ==
    \A p \in Procs :
        /\ (hand[p] = "due" /\ pc[p] # "held") =>
               (pc[p] = "sleep" /\ wake[p] <= deadline[p])
        /\ (LockTakeover(p) /\ hand[p] = "due") => pc'[p] = "held"

C4_HandoffUnlessTakenOver == [][C4_AmendedStep]_vars

C4_Witness ==
    \E p \in Procs : pc[p] = "held" /\ via[p] = "guarded" /\ hand[p] = "due"

\* C5: the poll loop of every Lock call ends (for a deadline within the horizon
\* of the clock); it is left only with a handle or with AcquireTimeoutErr, not
\* later than one PollInterval after the deadline, and never with a handle
\* while the row is in use.
C5_Step ==
    \A p \in Procs :
        (LockTakeover(p) /\ pc'[p] # "sleep") =>
            /\ now <= deadline[p] + PollInterval
            /\ \/ pc'[p] = "held" /\ ret'[p] = <<"Lock", Nil>>
               \/ pc'[p] = "idle" /\ ret'[p] = <<"Lock", AcquireTimeoutErr>>
            /\ (\E r \in RowsOf(table, lname[p]) : r.in_use) => pc'[p] = "idle"

C5_Terminates ==
    /\ [][C5_Step]_vars
    /\ [](\A p \in Procs : pc[p] = "sleep" => (now <= wake[p] /\ wake[p] <= deadline[p]))
    /\ \A p \in Procs :
          (pc[p] = "sleep" /\ deadline[p] <= MaxTime) ~> (pc[p] \in {"idle", "held"})

C5_Witness ==
    \E p, q \in Procs :
        /\ pc[p] = "idle" /\ ret[p] = <<"Lock", AcquireTimeoutErr>>
        /\ pc[q] = "held" /\ via[q] = "insert"
        /\ ~everStale

\* C6: a Lock call that ends with AcquireTimeoutErr found the row in use at
\* its guarded takeover attempts, the last one included.
C6_Step ==
    \A p \in Procs :
        (LockTakeover(p) /\ ret'[p] = <<"Lock", AcquireTimeoutErr>>) =>
            \A r \in RowsOf(table, lname[p]) : r.in_use

C6_TimeoutOnlyWhileHeld == [][C6_Step]_vars

\* C7: a fetched row that is in use and stale sends Lock to the forced
\* takeover, not to the poll loop, and with no other claimant taking the row
\* over in between the takeover succeeds and leaves owner = caller, in_use = 1.
C7_Step ==
    \A p \in Procs :
        /\ (LockFetch(p) /\ \E r \in RowsOf(table, lname[p]) : r.in_use /\ isStale(r, now))
               => (pc'[p] = "force" /\ verr'[p] = <<"existing lock is stale">>)
        /\ (LockForce(p) /\ verr[p] = <<"existing lock is stale">> /\ ~raced[p]
                /\ existing[p] # owner[p])
               => /\ pc'[p] = "held"
                  /\ ret'[p] = <<"Lock", Nil>>
                  /\ \A r \in RowsOf(table', lname[p]) : r.owner = owner[p] /\ r.in_use
                  /\ RowsOf(table', lname[p]) # {}

C7_StaleTakeover == [][C7_Step]_vars

C7_Witness ==
    \E p \in Procs :
        /\ pc[p] = "held" /\ via[p] = "forced, stale"
        /\ \E r \in RowsOf(table, lname[p]) : r.owner = owner[p] /\ r.in_use

\* C8: a fetched row that is not in use sends Lock to the forced takeover
\* whatever its age and its owner, and with no other claimant taking the row
\* over in between the takeover succeeds and leaves owner = caller, in_use = 1.
C8_Step ==
    \A p \in Procs :
        /\ (LockFetch(p) /\ \E r \in RowsOf(table, lname[p]) : ~r.in_use)
               => (pc'[p] = "force" /\ verr'[p] = <<"existing lock is not in use">>)
        /\ (LockForce(p) /\ verr[p] = <<"existing lock is not in use">> /\ ~raced[p])
               => /\ pc'[p] = "held"
                  /\ ret'[p] = <<"Lock", Nil>>
                  /\ \A r \in RowsOf(table', lname[p]) : r.owner = owner[p] /\ r.in_use
                  /\ RowsOf(table', lname[p]) # {}

C8_ReleasedAcquirable == [][C8_Step]_vars

\* the released row was old, and the caller takes it over
C8_Witness ==
    \E p \in Procs :
        /\ pc[p] = "held" /\ via[p] = "forced, released"
        /\ \E r \in RowsOf(table, lname[p]) : r.owner = owner[p] /\ r.in_use
        /\ now > MaxAge

\* what the latest successful Unlock on the name was given (nil before any)
Handed(name) == IF lastUnlock[name] = NoCall THEN Nil ELSE lastUnlock[name]

\* C9, as claimed: LastError on a handle returns the error the latest Unlock
\* was given, and nil after Unlock(nil) or when the row comes from the INSERT.
C9_RoundTrip ==
    \A p \in Procs :
        (pc[p] = "held" /\ lerr[p] # NoCall) => lerr[p] = Handed(lname[p])

\* C9, amended: so it is while the caller still owns the row and for a text
\* that is not empty; an error with an empty text comes back as nil.
C9_RoundTripAmended ==
    \A p \in Procs :
        (/\ pc[p] = "held"
         /\ lerr[p] # NoCall
         /\ \E r \in RowsOf(table, lname[p]) : r.owner = owner[p])
        => lerr[p] = (IF Handed(lname[p]) = <<"">> THEN Nil ELSE Handed(lname[p]))

C9_Witness ==
    \E p \in Procs :
        /\ pc[p] = "held" /\ via[p] \in {"guarded", "forced, released"}
        /\ lerr[p] = <<"recoverable error">>
        /\ lastUnlock[lname[p]] = <<"recoverable error">>

\* C10: once the takeover of one claimant has succeeded, the takeover of every
\* other claimant that guards on the same observed owner affects no row.
C10_Step ==
    \A p \in Procs :
        ((LockForce(p) \/ LockTakeover(p)) /\ pc'[p] = "held") =>
            \A q \in Claimants(p) :
                existing[q] = existing[p] =>
                    takeoverAffected(table', owner[q], lname[q], existing[q],
                                     pc[q] = "force") = 0

C10_OneTakeoverWins == [][C10_Step]_vars

\* the text Unlock is to store for the error it is given
TextOf(lastError) == IF lastError = Nil THEN "" ELSE Msg(lastError)

\* C11, as claimed: an Unlock by a handle whose manager owns the row returns
\* nil and leaves the row released with the text of its argument; an Unlock by
\* a handle whose manager does not own the row returns an error and leaves the
\* table as it was.
C11_Step ==
    \A p \in Procs, lastError \in UnlockArgs :
        Unlock(p, lastError) =>
            IF \E r \in RowsOf(table, lname[p]) : r.owner = owner[p]
            THEN /\ ret'[p] = <<"Unlock", Nil>>
                 /\ \A r \in RowsOf(table', lname[p]) :
                       r.owner = owner[p] /\ ~r.in_use /\ r.last_error = TextOf(lastError)
            ELSE /\ ret'[p] # <<"Unlock", Nil>>
                 /\ table' = table

C11_AmendedStep ==
    \A p \in Procs, lastError \in UnlockArgs :
        Unlock(p, lastError) =>
            IF \E r \in RowsOf(table, lname[p]) :
                   r.owner = owner[p] /\ (r.in_use \/ r.last_error # TextOf(lastError))
            THEN /\ ret'[p] = <<"Unlock", Nil>>
                 /\ \A r \in RowsOf(table', lname[p]) :
                       r.owner = owner[p] /\ ~r.in_use /\ r.last_error = TextOf(lastError)
                 /\ RowsOf(table', lname[p]) # {}
            ELSE /\ ret'[p] = <<"Unlock", <<"unexpected number of affected rows after unlock">>>>
                 /\ table' = table

C12_Step ==
    \A p \in Procs, err \in StoreErrors :
        LockTakeoverFails(p, err) =>
            /\ pc'[p] = "idle"
            /\ ret'[p] = <<"Lock", takeoverExecErr(err)>>

C12_StoreErrorEndsPolling == [][C12_Step]_vars

\* C13: after a successful insert, guarded or forced takeover, or Unlock, the
\* row's last_used is the time of that operation; and a Lock that fetches a row
\* in use whose last_used is the present time goes to the poll loop, not to the
\* forced takeover.
C13_Step ==
    /\ \A p \in Procs :
          (\/ \E name \in Names, acquireTimeout \in Timeouts :
                 Lock(p, name, acquireTimeout) /\ pc'[p] = "held"
           \/ LockForce(p) /\ pc'[p] = "held"
           \/ LockTakeover(p) /\ pc'[p] = "held"
           \/ \E lastError \in UnlockArgs :
                 Unlock(p, lastError) /\ ret'[p] = <<"Unlock", Nil>>)
          => /\ RowsOf(table', lname'[p]) # {}
             /\ \A r \in RowsOf(table', lname'[p]) : r.last_used = now
    /\ \A p \in Procs :
          (LockFetch(p) /\ \E r \in RowsOf(table, lname[p]) : r.in_use /\ r.last_used = now)
          => pc'[p] = "sleep"

C13_LastUsedRefreshed == [][C13_Step]_vars

\* a stale row was force-taken, and a third manager that fetched it right
\* afterwards waits in the poll loop
C13_Witness ==
    \E p, q \in Procs :
        /\ pc[p] = "held" /\ via[p] = "forced, stale"
        /\ pc[q] = "sleep" /\ lname[q] = lname[p] /\ existing[q] = owner[p]
        /\ \E r \in RowsOf(table, lname[p]) :
              r.owner = owner[p] /\ r.in_use /\ r.last_used = now /\ now > MaxAge

\* C14: a takeover succeeds exactly when a row of the name has the observed
\* owner and, unless forced, is not in use; after a success the row has
\* owner = caller and in_use = 1; otherwise nothing is written and the call
\* does not get the handle in this attempt.
C14_Step ==
    \A p \in Procs :
        (LockForce(p) \/ LockTakeover(p)) =>
            LET force == pc[p] = "force"
                guard == \E r \in RowsOf(table, lname[p]) :
                             r.owner = existing[p] /\ (force \/ ~r.in_use)
            IN  /\ (pc'[p] = "held") <=> guard
                /\ guard => /\ RowsOf(table', lname[p]) # {}
                            /\ \A r \in RowsOf(table', lname[p]) :
                                  r.owner = owner[p] /\ r.in_use
                /\ ~guard => table' = table

C14_TakeoverIsCAS == [][C14_Step]_vars

\* C15: when the forced takeover of a Lock call finds that the row no longer
\* has the fetched owner, the call ends in that step with the error 'unable to
\* take over lock' and without a handle, and nothing is written: no retry, no
\* second fetch, no poll loop.
C15_Step ==
    \A p \in Procs :
        (LockForce(p) /\ ~\E r \in RowsOf(table, lname[p]) : r.owner = existing[p]) =>
            /\ pc'[p] = "idle"
            /\ ret'[p] = <<"Lock", <<"unable to take over lock">>>>
            /\ table' = table

C15_FailedForceIsFatal == [][C15_Step]_vars

\* the call has failed while the claimant that won holds the row
C15_Witness ==
    \E p, q \in Procs :
        /\ pc[p] = "idle" /\ ret[p] = <<"Lock", <<"unable to take over lock">>>>
        /\ pc[q] = "held" /\ lname[q] = lname[p]
        /\ \E r \in RowsOf(table, lname[q]) :
              r.owner = owner[q] /\ r.in_use /\ ~isStale(r, now)

\* the owner tokens on the rows of a name
OwnersOf(tbl, name) == {r.owner : r \in RowsOf(tbl, name)}

\* thread p gets a handle in this step, by the INSERT or by a takeover
Acquires(p) ==
    \/ \E name \in Names, acquireTimeout \in Timeouts :
          Lock(p, name, acquireTimeout) /\ pc'[p] = "held"
    \/ LockForce(p) /\ pc'[p] = "held"
    \/ LockTakeover(p) /\ pc'[p] = "held"

\* C16: a successful insert or takeover leaves the token of its manager as the
\* row's owner, and no other step (Unlock, LastError, a fetch, a failed insert,
\* a failed takeover, the clock) changes the owner of a row; so the owner is
\* always the token of the latest successful insert or takeover.
C16_Step ==
    /\ \A p \in Procs : Acquires(p) => OwnersOf(table', lname'[p]) = {owner[p]}
    /\ (~\E p \in Procs : Acquires(p)) =>
           \A name \in Names : OwnersOf(table', name) = OwnersOf(table, name)

C16_OwnerIsLastTaker == [][C16_Step]_vars

\* a handle obtained by a guarded takeover, after LastError was called on it
C16_Witness ==
    \E p \in Procs :
        /\ pc[p] = "held" /\ via[p] = "guarded" /\ lerr[p] # NoCall
        /\ OwnersOf(table, lname[p]) = {owner[p]}
        /\ \E q \in Procs \ {p} : ret[q] = <<"Unlock", Nil>>

\* C17: a name never has more than one row, and so the takeover a Lock call is
\* about to run and the Unlock of a held handle never affect more than one row.
C17_Unique ==
    /\ \A name \in Names : Cardinality(RowsOf(table, name)) <= 1
    /\ \A p \in Procs :
          /\ pc[p] \in {"force", "sleep"} =>
                 takeoverAffected(table, owner[p], lname[p], existing[p],
                                  pc[p] = "force") <= 1
          /\ pc[p] = "held" =>
                 Cardinality(unlockMatched(table, lname[p], owner[p])) <= 1

\* a second INSERT was refused, a forced takeover is about to affect the one
\* row, which the Unlock of its present holder would affect too
C17_Witness ==
    \E p, q \in Procs :
        /\ pc[p] = "force"
        /\ takeoverAffected(table, owner[p], lname[p], existing[p], TRUE) = 1
        /\ pc[q] = "held" /\ lname[q] = lname[p]
        /\ Cardinality(unlockMatched(table, lname[q], owner[q])) = 1

\* C18: isValid returns nil for a fetched row exactly when the row is in use
\* and its age is at most MaxAge, and an error for a nil entry; Lock goes to the
\* poll loop with the rows judged valid and to the forced takeover with all
\* others.
C18_Step ==
    /\ isValid(NoEntry, now) # Nil
    /\ \A p \in Procs : \A r \in RowsOf(table, lname[p]) :
          LockFetch(p) =>
              LET valid == r.in_use /\ now - r.last_used <= MaxAge IN
              /\ (isValid(r, now) = Nil) <=> valid
              /\ valid => pc'[p] = "sleep"
              /\ ~valid => pc'[p] = "force"

C18_ValidityDecision == [][C18_Step]_vars

\* one call waits on a record it found valid at the age MaxAge or younger,
\* another is about to force-take the record it found stale
C18_Witness ==
    \E p, q \in Procs :
        /\ pc[p] = "sleep"
        /\ pc[q] = "force" /\ verr[q] = <<"existing lock is stale">>
        /\ lname[p] = lname[q]

\* C19: when the store fails the INSERT with an error other than the duplicate,
\* Lock returns an error and no handle in that step: the call does not go on
\* to the fetch, a takeover or the poll loop, and the table is as it was.
C19_Step ==
    \A p \in Procs, name \in Names, acquireTimeout \in Timeouts, err \in StoreErrors :
        LockInsertFails(p, name, acquireTimeout, err) =>
            /\ pc'[p] = "idle"
            /\ ret'[p] = <<"Lock", <<"unable to insert lock">>>>
            /\ table' = table

C19_InsertErrorIsFatal == [][C19_Step]_vars

C19_Witness ==
    \E p \in Procs :
        /\ pc[p] = "idle"
        /\ ret[p] = <<"Lock", <<"unable to insert lock">>>>
        /\ RowsOf(table, lname[p]) = {}

\* C20: when the INSERT was refused as a duplicate and the fetch finds no row,
\* Lock returns 'lock no longer exists' and no handle in that step: no second
\* INSERT, no takeover, no poll loop, and nothing is written.
C20_Step ==
    \A p \in Procs :
        (LockFetch(p) /\ RowsOf(table, lname[p]) = {}) =>
            /\ pc'[p] = "idle"
            /\ ret'[p] = <<"Lock", <<"lock no longer exists">>>>
            /\ table' = table

C20_VanishedRowIsFatal == [][C20_Step]_vars

C20_Witness ==
    \E p \in Procs :
        /\ pc[p] = "idle"
        /\ ret[p] = <<"Lock", <<"lock no longer exists">>>>
        /\ RowsOf(table, lname[p]) = {}

\* C21: a successful takeover, guarded or forced, sets owner and in_use and
\* leaves name and last_error of the row as they were (last_used is kept by
\* the table); a takeover that affects no row leaves the table as it was.
C21_Step ==
    \A p \in Procs :
        (LockForce(p) \/ LockTakeover(p)) =>
            IF pc'[p] = "held"
            THEN /\ RowsOf(table', lname[p]) # {}
                 /\ \A r \in RowsOf(table, lname[p]) :
                       table' = (table \ {r}) \cup
                                {[r EXCEPT !.owner = owner[p], !.in_use = TRUE,
                                           !.last_used = now]}
            ELSE table' = table

C21_TakeoverKeepsLastError == [][C21_Step]_vars

\* a handle obtained by takeover on a row that still carries the text the
\* previous holder's Unlock wrote
C21_Witness ==
    \E p \in Procs :
        /\ pc[p] = "held" /\ via[p] \in {"guarded", "forced, released"}
        /\ \E r \in RowsOf(table, lname[p]) :
              /\ r.owner = owner[p] /\ r.in_use
              /\ r.last_error = "recoverable error"
              /\ lastUnlock[lname[p]] = <<"recoverable error">>

\* C22: no step of Lock, Unlock or LastError removes a row: a name that has a
\* row has one after every step; and as long as only these operations change
\* the table, no Lock call returns 'lock no longer exists'.
C22_Step ==
    \A name \in Names : RowsOf(table, name) # {} => RowsOf(table', name) # {}

C22_RowsStay ==
    /\ [][C22_Step]_vars
    /\ [](\A p \in Procs : ret[p] # <<"Lock", <<"lock no longer exists">>>>)

\* the row is still there after it was inserted, taken over and released
C22_Witness ==
    \E p, q \in Procs :
        /\ p # q
        /\ ret[p] = <<"Unlock", Nil>> /\ pc[p] = "idle"
        /\ ret[q] = <<"Unlock", Nil>> /\ pc[q] = "idle"
        /\ lname[p] = lname[q]
        /\ \E r \in RowsOf(table, lname[p]) : ~r.in_use

\* C23: LastError on a handle whose manager does not own the row (another
\* manager has taken it over) returns the error 'unexpected error while
\* fetching last error state', not nil and not the text on the row.
C23_Step ==
    \A p \in Procs :
        (LastError(p) /\ ~\E r \in RowsOf(table, lname[p]) : r.owner = owner[p]) =>
            lerr'[p] = <<"unexpected error while fetching last error state">>

C23_LastErrorOfLostHandle == [][C23_Step]_vars

\* the handle's row was taken over and carries a text for its new holder
C23_Witness ==
    \E p \in Procs :
        /\ pc[p] = "held"
        /\ lerr[p] = <<"unexpected error while fetching last error state">>
        /\ \E r \in RowsOf(table, lname[p]) :
              r.owner # owner[p] /\ r.last_error = "recoverable error"

\* the other threads that use the same RLock as thread p
SameManager(p) == {q \in Procs \ {p} : owner[q] = owner[p]}

\* C24: two threads that use one RLock never both hold an unreleased handle on
\* a name (here: not even while no row was ever stale), and the Unlock of one
\* thread's handle does not release the row while the other thread holds it.
C24_UnlockStep ==
    \A p \in Procs, lastError \in UnlockArgs :
        (Unlock(p, lastError)
            /\ \E q \in SameManager(p) : pc[q] = "held" /\ lname[q] = lname[p]) =>
            \A r \in RowsOf(table, lname[p]) :
                r.in_use => \E r2 \in RowsOf(table', lname[p]) : r2.in_use

C24_OneManagerExcludes ==
    /\ [](~everStale =>
             \A p \in Procs : \A q \in SameManager(p) :
                 ~(pc[p] = "held" /\ pc[q] = "held" /\ lname[p] = lname[q]))
    /\ [][C24_UnlockStep]_vars

====
